---- MODULE Spec2Model ----
(***************************************************************************)
(* pdfmerge.py: merging PDF files on the command line.                     *)
(*                                                                         *)
(* Paths are sequences of one-character strings (POSIX path syntax, "/"    *)
(* the separator).  The file system is a pair: files, a function from the  *)
(* paths of the regular files to their content, and dirs, the set of the   *)
(* existing directories (written without a trailing separator).  The paths *)
(* met have no ".", ".." or doubled separators, so that a path names a     *)
(* file by its text.                                                       *)
(***************************************************************************)
EXTENDS Integers, Sequences, FiniteSets, TLC

VARIABLES
    files,      \* file system: path of a regular file -> its content
    dirs,       \* file system: the existing directories
    call,       \* one call of rename_file_if_necessary: its arguments
    result,     \* ... and its outcome ("none" before it is made)
    pc,         \* program runs: position of each invocation
    argv,       \* program runs: parsed arguments (outfile, inputfiles)
    loc,        \* program runs: local variables of each invocation
    opened,     \* program runs: input documents each invocation holds open
    fsAtResolve \* program runs: paths that existed when resolution returned

vars == <<files, dirs, call, result, pc, argv, loc, opened, fsAtResolve>>

(***************************************************************************)
(* Program constants.                                                      *)
(***************************************************************************)
MAX_NUM_OF_RENAME_ATTEMPTS == 20

DEFAULT_MERGE_OUTPUT_FILE_NAME == <<"m", "e", "r", "g", "e", "d", ".", "p", "d", "f">>

(***************************************************************************)
(* str(n) for n >= 0: the decimal digits, most significant first.          *)
(***************************************************************************)
DigitChars == <<"0", "1", "2", "3", "4", "5", "6", "7", "8", "9">>

RECURSIVE Str(_)
Str(n) ==
    IF n < 10 THEN <<DigitChars[n + 1]>>
    ELSE Str(n \div 10) \o <<DigitChars[(n % 10) + 1]>>

(***************************************************************************)
(* posixpath helpers.                                                      *)
(***************************************************************************)
\* p.rfind("/") + 1: the index of the last separator, 0 when there is none
RFindSep(p) ==
    LET at == {i \in 1..Len(p) : p[i] = "/"}
    IN  IF at = {} THEN 0 ELSE CHOOSE i \in at : \A j \in at : j <= i

\* head != sep * len(head)
AllSeps(h) == \A i \in 1..Len(h) : h[i] = "/"

\* head.rstrip("/")
RECURSIVE RStripSep(_)
RStripSep(h) ==
    IF h # <<>> /\ h[Len(h)] = "/" THEN RStripSep(SubSeq(h, 1, Len(h) - 1))
    ELSE h

\* os.path.basename(p)
Basename(p) == SubSeq(p, RFindSep(p) + 1, Len(p))

\* os.path.dirname(p)
Dirname(p) ==
    LET head == SubSeq(p, 1, RFindSep(p))
    IN  IF head # <<>> /\ ~AllSeps(head) THEN RStripSep(head) ELSE head

\* os.path.split(p) = (dirname, basename)
PathSplit(p) == <<Dirname(p), Basename(p)>>

\* os.path.join(a, b)
PathJoin(a, b) ==
    IF b # <<>> /\ b[1] = "/" THEN b
    ELSE IF a = <<>> \/ a[Len(a)] = "/" THEN a \o b
    ELSE a \o <<"/">> \o b

\* s.split("."): the maximal dot-free segments, at least one
RECURSIVE DotSplit(_)
DotSplit(s) ==
    LET at == {i \in 1..Len(s) : s[i] = "."}
    IN  IF at = {} THEN <<s>>
        ELSE LET i == CHOOSE k \in at : \A j \in at : k <= j
             IN  <<SubSeq(s, 1, i - 1)>> \o DotSplit(SubSeq(s, i + 1, Len(s)))

\* ".".join(parts)
RECURSIVE DotJoin(_)
DotJoin(parts) ==
    IF parts = <<>> THEN <<>>
    ELSE IF Len(parts) = 1 THEN parts[1]
    ELSE parts[1] \o <<".">> \o DotJoin(Tail(parts))

\* os.path.exists(p): p names a regular file or a directory
Exists(p, fs, ds) == p \in (DOMAIN fs) \cup ds

(***************************************************************************)
(* concat_num_to_file_name_if_necessary.                                   *)
(***************************************************************************)
\* mutant: the number goes before the last extension (as os.path.splitext would)
RenamedFileBeforeLastExt(file, num_of_rename_attempts) ==
    LET file_dirname  == PathSplit(file)[1]
        file_basename == PathSplit(file)[2]
        parts         == DotSplit(file_basename)
    IN  IF Len(parts) = 1
        THEN PathJoin(file_dirname, file_basename \o Str(num_of_rename_attempts))
        ELSE PathJoin(file_dirname,
                      DotJoin(SubSeq(parts, 1, Len(parts) - 1))
                          \o Str(num_of_rename_attempts) \o <<".">> \o parts[Len(parts)])

\* the candidate of one rename attempt: the number goes right after the
\* first dot-delimited part of the base name
RenamedFile(file, num_of_rename_attempts) ==
    LET file_dirname  == PathSplit(file)[1]
        file_basename == PathSplit(file)[2]
        parts         == DotSplit(file_basename)
        file_basename_first_part == Head(parts)
        file_basename_rest_parts == Tail(parts)
    IN  PathJoin(file_dirname,
                 DotJoin(<<file_basename_first_part \o Str(num_of_rename_attempts)>>
                         \o file_basename_rest_parts))

\* what the exception carries
TooManyRenameAttemptsError(num_of_rename_attempts, file_name) ==
    [kind |-> "TooManyRenameAttemptsError",
     num_of_rename_attempts |-> num_of_rename_attempts,
     file_name |-> file_name]

Returned(path) == [kind |-> "returned", path |-> path]

\* mutant: "if" for "while", the candidate of the first attempt is returned untested
RenameLoopIfNotWhile(file, renamed_file, num_of_rename_attempts, max_num_of_rename_attempts, fs, ds) ==
    IF Exists(renamed_file, fs, ds)
    THEN IF 1 > max_num_of_rename_attempts
         THEN TooManyRenameAttemptsError(max_num_of_rename_attempts, file)
         ELSE Returned(RenamedFile(file, 1))
    ELSE Returned(renamed_file)

\* mutant: the error carries the attempts made, not the maximum
RECURSIVE RenameLoopRaisesCount(_, _, _, _, _, _)
RenameLoopRaisesCount(file, renamed_file, num_of_rename_attempts, max_num_of_rename_attempts, fs, ds) ==
    IF Exists(renamed_file, fs, ds)
    THEN LET n == num_of_rename_attempts + 1
         IN  IF n > max_num_of_rename_attempts
             THEN TooManyRenameAttemptsError(n, file)
             ELSE RenameLoopRaisesCount(file, RenamedFile(file, n), n,
                                        max_num_of_rename_attempts, fs, ds)
    ELSE Returned(renamed_file)

\* mutant: the error carries the last candidate, not the file asked for
RECURSIVE RenameLoopRaisesRenamed(_, _, _, _, _, _)
RenameLoopRaisesRenamed(file, renamed_file, num_of_rename_attempts, max_num_of_rename_attempts, fs, ds) ==
    IF Exists(renamed_file, fs, ds)
    THEN LET n == num_of_rename_attempts + 1
         IN  IF n > max_num_of_rename_attempts
             THEN TooManyRenameAttemptsError(max_num_of_rename_attempts, renamed_file)
             ELSE RenameLoopRaisesRenamed(file, RenamedFile(file, n), n,
                                          max_num_of_rename_attempts, fs, ds)
    ELSE Returned(renamed_file)

\* the while loop, entered with renamed_file and the attempts made so far
RECURSIVE RenameLoop(_, _, _, _, _, _)
RenameLoop(file, renamed_file, num_of_rename_attempts, max_num_of_rename_attempts, fs, ds) ==
    IF Exists(renamed_file, fs, ds)
    THEN LET n == num_of_rename_attempts + 1
         IN  IF n > max_num_of_rename_attempts
             THEN TooManyRenameAttemptsError(max_num_of_rename_attempts, file)
             ELSE RenameLoop(file, RenamedFile(file, n), n,
                             max_num_of_rename_attempts, fs, ds)
    ELSE Returned(renamed_file)

concat_num_to_file_name_if_necessary(file, max_num_of_rename_attempts, fs, ds) ==
    IF Exists(file, fs, ds)
    THEN RenameLoop(file, file, 0, max_num_of_rename_attempts, fs, ds)
    ELSE Returned(file)

(***************************************************************************)
(* rename_file_if_necessary.                                               *)
(***************************************************************************)
\* mutant: the default name is appended whatever the path ends in
WorkingFileAlways(file, default_file_name) == file \o default_file_name

\* if file is a directory, append default_file_name to path
WorkingFile(file, default_file_name) ==
    IF Basename(file) = <<>> THEN file \o default_file_name ELSE file

rename_file_if_necessary(file, default_file_name, max_num_of_rename_attempts, fs, ds) ==
    concat_num_to_file_name_if_necessary(WorkingFile(file, default_file_name),
                                         max_num_of_rename_attempts, fs, ds)

(***************************************************************************)
(* Environment of one resolver call.  A requested path is written          *)
(* dir \o first \o rest: a directory prefix, the base name's text before   *)
(* its first dot, and the remaining text (empty, or starting with a dot).  *)
(***************************************************************************)
MaxAttemptsBound == 3   \* max_num_of_rename_attempts ranges over 0..MaxAttemptsBound

DirPrefixes == { <<>>, <<"/">>, <<"d", "/">>, <<"d", "/", "e", "/">> }

FirstTexts == { <<>>, <<"a">>, <<"d">> }

RestTexts == { <<>>, <<".", "b">>, <<".", "t", ".", "g">> }

DefaultNames ==
    { [first |-> <<"m", "e", "r", "g", "e", "d">>, rest |-> <<".", "p", "d", "f">>],
      [first |-> <<"o">>, rest |-> <<>>] }

DirStates == { {}, {<<"d">>}, {<<"d">>, <<"d", "/", "e">>} }

\* the decimal text of k, 0 <= k < 100, written out digit by digit
NumberText(k) ==
    IF k < 10 THEN <<DigitChars[k + 1]>>
    ELSE <<DigitChars[(k \div 10) + 1], DigitChars[(k % 10) + 1]>>

\* dir/first<k>.rest, the number left out for k = 0
Numbered(parts, k) ==
    parts.dir \o parts.first \o (IF k = 0 THEN <<>> ELSE NumberText(k)) \o parts.rest

\* the directories a path lies in
Ancestors(p) == { SubSeq(p, 1, i - 1) : i \in { j \in 2..Len(p) : p[j] = "/" } }

\* file contents: a PDF document with its pages in order, or something else
Pdf(pages) == [pdf |-> TRUE, pages |-> pages]

NotPdf == [pdf |-> FALSE, pages |-> <<>>]

\* a one-page document found at pre-existing output paths
OldDoc == Pdf(<<"old">>)

NoCall ==
    [file |-> <<>>, default_file_name |-> <<>>, max_num_of_rename_attempts |-> 0,
     parts |-> [dir |-> <<>>, first |-> <<>>, rest |-> <<>>],
     dparts |-> [first |-> <<>>, rest |-> <<>>]]

NoResult == [kind |-> "none"]

InitResolve ==
    \E dir \in DirPrefixes, first \in FirstTexts, rest \in RestTexts,
       dflt \in DefaultNames, max \in 0..MaxAttemptsBound,
       useDefault \in BOOLEAN, S \in SUBSET (0..(MaxAttemptsBound + 1)),
       ds \in DirStates :
        LET parts == [dir |-> dir, first |-> first, rest |-> rest]
            base  == IF useDefault
                     THEN [dir |-> dir, first |-> dflt.first, rest |-> dflt.rest]
                     ELSE parts
            names == { Numbered(base, k) : k \in S }
        IN  /\ base.first \o base.rest # <<>>
            /\ names \cap ds = {}
            /\ \A f \in names : Ancestors(f) \subseteq ds
            /\ files = [f \in names |-> OldDoc]
            /\ dirs = ds
            /\ call = [file |-> dir \o first \o rest,
                       default_file_name |-> dflt.first \o dflt.rest,
                       max_num_of_rename_attempts |-> max,
                       parts |-> parts, dparts |-> dflt]
            /\ result = NoResult
            /\ pc = <<>> /\ argv = <<>> /\ loc = <<>> /\ opened = <<>>
            /\ fsAtResolve = <<>>

\* the call is made
Resolve ==
    /\ result = NoResult
    /\ result' = rename_file_if_necessary(call.file, call.default_file_name,
                                          call.max_num_of_rename_attempts, files, dirs)
    /\ UNCHANGED <<files, dirs, call, pc, argv, loc, opened, fsAtResolve>>

NextResolve == Resolve

SpecResolve == InitResolve /\ [][NextResolve]_vars

(***************************************************************************)
(* Program runs: __main__ of concurrent invocations on one file system.    *)
(* Each action is one step of one invocation between two accesses to the   *)
(* file system.                                                            *)
(***************************************************************************)
Invocations == {"A", "B"}

NoLocals ==
    [file |-> <<>>, renamed_file |-> <<>>, num_of_rename_attempts |-> 0,
     outfile |-> <<>>, result_pdf |-> <<>>, i |-> 0, pdf_doc |-> <<>>,
     printed |-> NoResult]

\* os.path.normpath on the directory names met here: "" becomes "."
Normpath(d) == IF d = <<>> THEN <<".">> ELSE d

\* the directories os.makedirs(d) needs to exist: d and the ones it lies in
DirChain(d) ==
    IF d = <<".">> \/ AllSeps(d) THEN {} ELSE Ancestors(d \o <<"/">>)

\* fitz.Document(pdf_file) succeeds
CanOpen(pdf_file, fs) == pdf_file \in DOMAIN fs /\ fs[pdf_file].pdf

\* mutant: the output path is used without asking whether it exists
RenameStartNoCheck(p) ==
    /\ pc[p] = "main"
    /\ LET file == WorkingFile(argv[p].outfile, DEFAULT_MERGE_OUTPUT_FILE_NAME)
       IN  /\ loc' = [loc EXCEPT ![p].file = file, ![p].renamed_file = file,
                                 ![p].outfile = file]
           /\ pc' = [pc EXCEPT ![p] = "merge"]
           /\ fsAtResolve' = [fsAtResolve EXCEPT ![p] = (DOMAIN files) \cup dirs]
    /\ UNCHANGED <<files, dirs, call, result, argv, opened>>

\* main calls rename_file_if_necessary; the default name is appended to a
\* directory path and the first existence test is made
RenameStart(p) ==
    /\ pc[p] = "main"
    /\ LET file == WorkingFile(argv[p].outfile, DEFAULT_MERGE_OUTPUT_FILE_NAME)
       IN  IF Exists(file, files, dirs)
           THEN /\ loc' = [loc EXCEPT ![p].file = file, ![p].renamed_file = file,
                                      ![p].num_of_rename_attempts = 0]
                /\ pc' = [pc EXCEPT ![p] = "rename_loop"]
                /\ UNCHANGED fsAtResolve
           ELSE /\ loc' = [loc EXCEPT ![p].file = file, ![p].renamed_file = file,
                                      ![p].outfile = file]
                /\ pc' = [pc EXCEPT ![p] = "merge"]
                /\ fsAtResolve' = [fsAtResolve EXCEPT ![p] = (DOMAIN files) \cup dirs]
    /\ UNCHANGED <<files, dirs, call, result, argv, opened>>

\* mutant: on exhaustion the loop is left and the last candidate is used
RenameLoopStepFallsThrough(p) ==
    /\ pc[p] = "rename_loop"
    /\ IF Exists(loc[p].renamed_file, files, dirs)
       THEN LET n == loc[p].num_of_rename_attempts + 1
            IN  IF n > MAX_NUM_OF_RENAME_ATTEMPTS
                THEN /\ loc' = [loc EXCEPT ![p].num_of_rename_attempts = n,
                                           ![p].outfile = loc[p].renamed_file]
                     /\ pc' = [pc EXCEPT ![p] = "merge"]
                     /\ fsAtResolve' = [fsAtResolve EXCEPT ![p] = (DOMAIN files) \cup dirs]
                ELSE /\ loc' = [loc EXCEPT ![p].num_of_rename_attempts = n,
                                   ![p].renamed_file = RenamedFile(loc[p].file, n)]
                     /\ UNCHANGED <<pc, fsAtResolve>>
       ELSE /\ loc' = [loc EXCEPT ![p].outfile = loc[p].renamed_file]
            /\ pc' = [pc EXCEPT ![p] = "merge"]
            /\ fsAtResolve' = [fsAtResolve EXCEPT ![p] = (DOMAIN files) \cup dirs]
    /\ UNCHANGED <<files, dirs, call, result, argv, opened>>

\* one test of the while condition and, when it holds, one pass of the body;
\* the error raised on exhaustion is caught by main and printed
RenameLoopStep(p) ==
    /\ pc[p] = "rename_loop"
    /\ IF Exists(loc[p].renamed_file, files, dirs)
       THEN LET n == loc[p].num_of_rename_attempts + 1
            IN  IF n > MAX_NUM_OF_RENAME_ATTEMPTS
                THEN /\ loc' = [loc EXCEPT ![p].num_of_rename_attempts = n,
                                   ![p].printed = TooManyRenameAttemptsError(
                                       MAX_NUM_OF_RENAME_ATTEMPTS, loc[p].file)]
                     /\ pc' = [pc EXCEPT ![p] = "reported"]
                     /\ UNCHANGED fsAtResolve
                ELSE /\ loc' = [loc EXCEPT ![p].num_of_rename_attempts = n,
                                   ![p].renamed_file = RenamedFile(loc[p].file, n)]
                     /\ UNCHANGED <<pc, fsAtResolve>>
       ELSE /\ loc' = [loc EXCEPT ![p].outfile = loc[p].renamed_file]
            /\ pc' = [pc EXCEPT ![p] = "merge"]
            /\ fsAtResolve' = [fsAtResolve EXCEPT ![p] = (DOMAIN files) \cup dirs]
    /\ UNCHANGED <<files, dirs, call, result, argv, opened>>

\* mutant: the output directory is made before the inputs are read
MergeStartMakesDirs(p) ==
    /\ pc[p] = "merge"
    /\ loc' = [loc EXCEPT ![p].result_pdf = <<>>, ![p].i = 1]
    /\ pc' = [pc EXCEPT ![p] = IF argv[p].inputfiles = <<>> THEN "makedirs" ELSE "open"]
    /\ dirs' = dirs \cup (DirChain(Normpath(Dirname(loc[p].outfile))) \ DOMAIN files)
    /\ UNCHANGED <<files, call, result, argv, opened, fsAtResolve>>

\* merge_pdfs starts: result_pdf = fitz.Document()
MergeStart(p) ==
    /\ pc[p] = "merge"
    /\ loc' = [loc EXCEPT ![p].result_pdf = <<>>, ![p].i = 1]
    /\ pc' = [pc EXCEPT ![p] = IF argv[p].inputfiles = <<>> THEN "makedirs" ELSE "open"]
    /\ UNCHANGED <<files, dirs, call, result, argv, opened, fsAtResolve>>

\* with fitz.Document(pdf_file) as pdf_doc: the next input is opened, or the
\* constructor raises and the run ends with the exception
OpenInput(p) ==
    /\ pc[p] = "open"
    /\ LET pdf_file == argv[p].inputfiles[loc[p].i]
       IN  IF CanOpen(pdf_file, files)
           THEN /\ opened' = [opened EXCEPT ![p] = @ \cup {loc[p].i}]
                /\ loc' = [loc EXCEPT ![p].pdf_doc = files[pdf_file].pages]
                /\ pc' = [pc EXCEPT ![p] = "insert"]
           ELSE /\ pc' = [pc EXCEPT ![p] = "crashed"]
                /\ UNCHANGED <<opened, loc>>
    /\ UNCHANGED <<files, dirs, call, result, argv, fsAtResolve>>

\* mutant: the pages are inserted at the front of result_pdf
InsertPDFAtFront(p) ==
    /\ pc[p] = "insert"
    /\ loc' = [loc EXCEPT ![p].result_pdf = loc[p].pdf_doc \o @,
                          ![p].i = @ + 1]
    /\ opened' = [opened EXCEPT ![p] = @ \ {loc[p].i}]
    /\ pc' = [pc EXCEPT ![p] = IF loc[p].i = Len(argv[p].inputfiles)
                               THEN "makedirs" ELSE "open"]
    /\ UNCHANGED <<files, dirs, call, result, argv, fsAtResolve>>

\* mutant: no with block, pdf_doc is never closed
InsertPDFLeavesOpen(p) ==
    /\ pc[p] = "insert"
    /\ loc' = [loc EXCEPT ![p].result_pdf = @ \o loc[p].pdf_doc,
                          ![p].i = @ + 1]
    /\ pc' = [pc EXCEPT ![p] = IF loc[p].i = Len(argv[p].inputfiles)
                               THEN "makedirs" ELSE "open"]
    /\ UNCHANGED <<files, dirs, call, result, argv, opened, fsAtResolve>>

\* result_pdf.insertPDF(pdf_doc), then the with block closes pdf_doc
InsertPDF(p) ==
    /\ pc[p] = "insert"
    /\ loc' = [loc EXCEPT ![p].result_pdf = @ \o loc[p].pdf_doc,
                          ![p].i = @ + 1]
    /\ opened' = [opened EXCEPT ![p] = @ \ {loc[p].i}]
    /\ pc' = [pc EXCEPT ![p] = IF loc[p].i = Len(argv[p].inputfiles)
                               THEN "makedirs" ELSE "open"]
    /\ UNCHANGED <<files, dirs, call, result, argv, fsAtResolve>>

\* insertPDF raises: the with block still closes pdf_doc, the run ends with
\* the exception
InsertFails(p) ==
    /\ pc[p] = "insert"
    /\ opened' = [opened EXCEPT ![p] = @ \ {loc[p].i}]
    /\ pc' = [pc EXCEPT ![p] = "crashed"]
    /\ UNCHANGED <<files, dirs, call, result, argv, loc, fsAtResolve>>

\* os.makedirs(os.path.normpath(os.path.dirname(outfile)), exist_ok=True);
\* it raises when a regular file is in the way
MakeDirs(p) ==
    /\ pc[p] = "makedirs"
    /\ LET chain == DirChain(Normpath(Dirname(loc[p].outfile)))
       IN  IF chain \cap DOMAIN files # {}
           THEN /\ pc' = [pc EXCEPT ![p] = "crashed"]
                /\ UNCHANGED dirs
           ELSE /\ dirs' = dirs \cup chain
                /\ pc' = [pc EXCEPT ![p] = "save"]
    /\ UNCHANGED <<files, call, result, argv, loc, opened, fsAtResolve>>

\* result_pdf.save(outfile): the file is created or replaced; it raises when
\* outfile is a directory
Save(p) ==
    /\ pc[p] = "save"
    /\ IF loc[p].outfile \in dirs
       THEN /\ pc' = [pc EXCEPT ![p] = "crashed"]
            /\ UNCHANGED files
       ELSE /\ files' = [f \in (DOMAIN files) \cup {loc[p].outfile} |->
                            IF f = loc[p].outfile THEN Pdf(loc[p].result_pdf)
                            ELSE files[f]]
            /\ pc' = [pc EXCEPT ![p] = "done"]
    /\ UNCHANGED <<dirs, call, result, argv, loc, opened, fsAtResolve>>

(***************************************************************************)
(* Environment of the program runs.                                        *)
(***************************************************************************)
MaxInputs == 2   \* invocation A merges 1..MaxInputs input files

\* input files: two documents with pages, an empty document, a file that is
\* no PDF; the path n names nothing
InputFiles ==
    [f \in {<<"x">>, <<"y">>, <<"z">>, <<"j">>} |->
        IF f = <<"x">> THEN Pdf(<<"x1", "x2">>)
        ELSE IF f = <<"y">> THEN Pdf(<<"y1">>)
        ELSE IF f = <<"z">> THEN Pdf(<<>>)
        ELSE NotPdf]

InputNames == { <<"x">>, <<"y">>, <<"z">>, <<"j">> }

InputLists == UNION { [1..n -> InputNames] : n \in 1..MaxInputs }

RivalInputLists == { <<<<"y">>>>, <<<<"n">>>> }

OutRequests ==
    { DEFAULT_MERGE_OUTPUT_FILE_NAME, <<"d", "/">>, <<"d">>,
      <<"d", "/", "e", "/", "a", ".", "t", ".", "g">> }

\* the second invocation writes into the directory d or to d itself
RivalOutRequests == { <<"d", "/">>, <<"d">> }

\* how many of name, name1, name2, ... exist at the start: none, a few, or
\* all the names the rename budget reaches
ExistingCounts == { 0, 1, 2, MAX_NUM_OF_RENAME_ATTEMPTS + 1 }

\* dir, first and rest of the working path of an output request
RequestParts(out) ==
    IF out = DEFAULT_MERGE_OUTPUT_FILE_NAME
        THEN [dir |-> <<>>, first |-> <<"m", "e", "r", "g", "e", "d">>,
              rest |-> <<".", "p", "d", "f">>]
    ELSE IF out = <<"d", "/">>
        THEN [dir |-> <<"d", "/">>, first |-> <<"m", "e", "r", "g", "e", "d">>,
              rest |-> <<".", "p", "d", "f">>]
    ELSE IF out = <<"d">>
        THEN [dir |-> <<>>, first |-> <<"d">>, rest |-> <<>>]
    ELSE [dir |-> <<"d", "/", "e", "/">>, first |-> <<"a">>, rest |-> <<".", "t", ".", "g">>]

Init ==
    \E outA \in OutRequests, outB \in RivalOutRequests,
       insA \in InputLists, insB \in RivalInputLists,
       n \in ExistingCounts, ds \in DirStates :
        LET names == { Numbered(RequestParts(outA), k) : k \in 0..(n - 1) }
        IN  /\ names \cap ds = {}
            /\ \A f \in names : Ancestors(f) \subseteq ds
            /\ files = [f \in names \cup DOMAIN InputFiles |->
                           IF f \in names THEN OldDoc ELSE InputFiles[f]]
            /\ dirs = ds
            /\ argv = [p \in Invocations |->
                          IF p = "A" THEN [outfile |-> outA, inputfiles |-> insA]
                                     ELSE [outfile |-> outB, inputfiles |-> insB]]
            /\ pc = [p \in Invocations |-> "main"]
            /\ loc = [p \in Invocations |-> NoLocals]
            /\ opened = [p \in Invocations |-> {}]
            /\ fsAtResolve = [p \in Invocations |-> {}]
            /\ call = NoCall
            /\ result = NoResult

Next ==
    \E p \in Invocations :
        \/ RenameStart(p)
        \/ RenameLoopStep(p)
        \/ MergeStart(p)
        \/ OpenInput(p)
        \/ InsertPDF(p)
        \/ InsertFails(p)
        \/ MakeDirs(p)
        \/ Save(p)

Spec == Init /\ [][Next]_vars

(***************************************************************************)
(* Properties of one resolver call (checked under SpecResolve).            *)
(***************************************************************************)
Done == result.kind # "none"

RaisedTooMany == result.kind = "TooManyRenameAttemptsError"

Existing == (DOMAIN files) \cup dirs

\* the requested path ends in a separator (or is empty): no final component
FinalComponentEmpty == call.parts.first \o call.parts.rest = <<>>

\* dir, first and rest of the working path
WorkParts ==
    IF FinalComponentEmpty
    THEN [dir |-> call.parts.dir, first |-> call.dparts.first, rest |-> call.dparts.rest]
    ELSE call.parts

\* the attempt numbers 0..maxAttempts whose candidate is free (0: the working path)
FreeNumbers ==
    { k \in 0..call.max_num_of_rename_attempts : Numbered(WorkParts, k) \notin Existing }

Least(S) == CHOOSE k \in S : \A j \in S : k <= j

\* C1: whenever the resolver returns a path, nothing exists at that path in
\* the file system of the moment of return.
C1_ReturnedPathIsFree ==
    result.kind = "returned" => result.path \notin Existing

\* the resolver returned after at least one rename attempt
C1_Witness ==
    /\ result.kind = "returned"
    /\ Numbered(WorkParts, 0) \in Existing
    /\ call.max_num_of_rename_attempts >= 2

\* C2: for a working path dir/first.rest the resolver returns the first free
\* path of dir/first.rest, dir/first1.rest, ..., dir/first<maxAttempts>.rest:
\* the working path itself when it is free, else the free candidate with the
\* smallest number, the number placed right after the first segment.
C2_FirstFreeCandidate ==
    Done =>
        /\ FreeNumbers # {} =>
              result = [kind |-> "returned",
                        path |-> Numbered(WorkParts, Least(FreeNumbers))]
        /\ result.kind = "returned" => FreeNumbers # {}

\* a name with two dots got the number 2 after its first segment
C2_Witness ==
    /\ result.kind = "returned"
    /\ WorkParts.rest = <<".", "t", ".", "g">>
    /\ WorkParts.first # <<>>
    /\ FreeNumbers # {} /\ Least(FreeNumbers) = 2
    /\ result.path = WorkParts.dir \o WorkParts.first \o <<"2", ".", "t", ".", "g">>

\* the working path is returned unchanged when it is free
C2_WitnessFree ==
    /\ result.kind = "returned"
    /\ 0 \in FreeNumbers
    /\ result.path = call.file

\* C3 as stated: when the working path and all candidates 1..maxAttempts
\* exist the resolver fails and the error carries maxAttempts + 1.
C3_CountIsOnePastMaximum ==
    (Done /\ FreeNumbers = {}) =>
        /\ RaisedTooMany
        /\ result.num_of_rename_attempts = call.max_num_of_rename_attempts + 1

\* C3 amended: when the working path and all candidates 1..maxAttempts exist
\* the resolver fails and the error carries maxAttempts, the configured maximum.
C3_CountIsMaximum ==
    (Done /\ FreeNumbers = {}) =>
        /\ RaisedTooMany
        /\ result.num_of_rename_attempts = call.max_num_of_rename_attempts

\* the budget was used up after real attempts
C3_Witness ==
    /\ RaisedTooMany
    /\ FreeNumbers = {}
    /\ call.max_num_of_rename_attempts >= 2

\* C4 as stated: the file name the error carries is the requested path
\* exactly as passed, also when that path ended in a separator.
C4_ErrorNamesRequestedPath ==
    RaisedTooMany => result.file_name = call.file

\* C4 amended: the file name the error carries is the working path: the
\* requested path when its final component is non-empty, the requested path
\* with the default file name appended when it is empty.
C4_ErrorNamesWorkingPath ==
    RaisedTooMany =>
        result.file_name =
            (IF FinalComponentEmpty THEN call.file \o call.default_file_name
                                    ELSE call.file)

\* the error was raised for a request that ended in a separator
C4_Witness ==
    /\ RaisedTooMany
    /\ FinalComponentEmpty
    /\ call.parts.dir # <<>>
    /\ call.max_num_of_rename_attempts >= 1

\* C5: a requested path with an empty final component is resolved exactly as
\* the same path with the default file name appended; a requested path with a
\* non-empty final component never gets the default file name.
C5_DirectoryGetsDefaultName ==
    Done =>
        /\ FinalComponentEmpty =>
              result = rename_file_if_necessary(
                           call.file \o call.default_file_name,
                           call.default_file_name,
                           call.max_num_of_rename_attempts, files, dirs)
        /\ ~FinalComponentEmpty =>
              /\ result.kind = "returned" =>
                    result.path \in { Numbered(call.parts, k) :
                                        k \in 0..call.max_num_of_rename_attempts }
              /\ RaisedTooMany => result.file_name = call.file

\* out/ was resolved to out/merged1.pdf-like: default appended, then renamed
C5_Witness ==
    /\ result.kind = "returned"
    /\ FinalComponentEmpty
    /\ call.parts.dir = <<"d", "/">>
    /\ result.path = Numbered(WorkParts, 1)
    /\ Numbered(WorkParts, 0) \in Existing

(***************************************************************************)
(* Properties of the program runs (checked under Spec).                    *)
(***************************************************************************)
\* invocation p takes the step
Stepped(p) == <<pc[p], loc[p], opened[p]>>' # <<pc[p], loc[p], opened[p]>>

FsChanged == <<files, dirs>>' # <<files, dirs>>

\* p's save succeeds in the step
Saves(p) == pc[p] = "save" /\ pc'[p] = "done"

ValidDocument(f) == f \in DOMAIN files /\ files[f].pdf

\* pages(d1) ++ ... ++ pages(dN)
RECURSIVE AllPages(_)
AllPages(names) ==
    IF names = <<>> THEN <<>>
    ELSE files[Head(names)].pages \o AllPages(Tail(names))

\* C6: when merge_pdfs succeeds, the document it writes to the output path
\* has the pages of the inputs, concatenated in input order.
C6_OutputIsConcatenation ==
    [][\A p \in Invocations :
          Saves(p) =>
              /\ loc[p].outfile \in DOMAIN files'
              /\ files'[loc[p].outfile] = Pdf(AllPages(argv[p].inputfiles))
              /\ Len(files'[loc[p].outfile].pages) =
                     Len(AllPages(argv[p].inputfiles))]_vars

\* y (one page) and x (two pages) were merged in that order
C6_Witness ==
    /\ pc["A"] = "done"
    /\ argv["A"].inputfiles = << <<"y">>, <<"x">> >>
    /\ loc["A"].outfile \in DOMAIN files
    /\ files[loc["A"].outfile] = Pdf(<<"y1", "x1", "x2">>)

\* C7: an invocation with an input that cannot be opened never changes the
\* file system (no file written, no directory created) and never gets past
\* the reading of the inputs, wherever the bad input is in the list.
C7_BadInputLeavesFsUnchanged ==
    /\ [](\A p \in Invocations :
            pc[p] \in {"makedirs", "save", "done"} =>
                \A k \in 1..Len(argv[p].inputfiles) :
                    ValidDocument(argv[p].inputfiles[k]))
    /\ [][\A p \in Invocations :
            (Stepped(p) /\ FsChanged) =>
                \A k \in 1..Len(argv[p].inputfiles) :
                    ValidDocument(argv[p].inputfiles[k])]_vars

\* the second input was bad after the first was appended; nothing was made
C7_Witness ==
    /\ pc["A"] = "crashed"
    /\ argv["A"].inputfiles = << <<"x">>, <<"j">> >>
    /\ loc["A"].i = 2
    /\ loc["A"].result_pdf = <<"x1", "x2">>
    /\ argv["A"].outfile = <<"d", "/">>
    /\ <<"d">> \notin dirs
    /\ loc["A"].outfile \notin DOMAIN files

MergePcs == {"merge", "open", "insert", "makedirs", "save", "done"}

\* the rename budget of p is used up: the next test of the loop raises
Exhausted(p) ==
    /\ pc[p] = "rename_loop"
    /\ loc[p].num_of_rename_attempts = MAX_NUM_OF_RENAME_ATTEMPTS
    /\ loc[p].renamed_file \in (DOMAIN files) \cup dirs

\* C8: when resolution raises TooManyRenameAttempts the error is caught and
\* reported and the run ends there without entering the merge: no input is
\* opened, no directory made, no file written; the merge is entered only
\* after resolution returned a path.
C8_ErrorReportedWithoutMerge ==
    /\ [](\A p \in Invocations :
            pc[p] = "reported" =>
                /\ loc[p].printed.kind = "TooManyRenameAttemptsError"
                /\ loc[p].i = 0
                /\ loc[p].outfile = <<>>
                /\ opened[p] = {})
    /\ [][\A p \in Invocations :
            /\ pc[p] = "reported" => ~Stepped(p)
            /\ (Stepped(p) /\ Exhausted(p)) => (pc'[p] = "reported" /\ ~FsChanged)
            /\ (pc'[p] \in MergePcs /\ pc[p] \notin MergePcs) =>
                  /\ pc[p] \in {"main", "rename_loop"}
                  /\ pc'[p] = "merge"
                  /\ loc'[p].outfile # <<>>
                  /\ loc'[p].outfile \notin (DOMAIN files) \cup dirs
            /\ (Stepped(p) /\ FsChanged) => pc[p] \in {"makedirs", "save"}]_vars

\* a run ended with the error reported
C8_Witness ==
    /\ pc["A"] = "reported"
    /\ loc["A"].printed.num_of_rename_attempts = MAX_NUM_OF_RENAME_ATTEMPTS
    /\ loc["A"].num_of_rename_attempts = MAX_NUM_OF_RENAME_ATTEMPTS + 1

\* C9: an invocation holds at most one input document open, closes each
\* input before it opens the next, opens them in list order, and holds none
\* open once the inputs are read or the run has ended.
C9_OneInputOpenAtATime ==
    /\ [](\A p \in Invocations :
            /\ Cardinality(opened[p]) <= 1
            /\ pc[p] \in {"makedirs", "save", "done", "crashed", "reported"} =>
                  opened[p] = {})
    /\ [][\A p \in Invocations :
            (opened'[p] # opened[p] /\ opened'[p] # {}) =>
                /\ opened[p] = {}
                /\ opened'[p] = {loc[p].i}]_vars

\* the second input is open, the first one closed
C9_Witness ==
    /\ pc["A"] = "insert"
    /\ loc["A"].i = 2
    /\ opened["A"] = {2}

\* C10: a save replaces an existing file only when another invocation wrote
\* that file after the saving invocation resolved its path (the path was free
\* at its resolution); a single invocation never overwrites.  With two
\* invocations the overwrite happens (C10_Witness).
C10_OverwriteOnlyByRace ==
    [][\A p \in Invocations :
          (Saves(p) /\ loc[p].outfile \in DOMAIN files) =>
              /\ loc[p].outfile \notin fsAtResolve[p]
              /\ \E q \in Invocations \ {p} :
                    /\ pc[q] = "done"
                    /\ loc[q].outfile = loc[p].outfile]_vars

\* both invocations resolved to the same path and B's output replaced A's
C10_Witness ==
    /\ pc["A"] = "done" /\ pc["B"] = "done"
    /\ loc["A"].outfile = loc["B"].outfile
    /\ argv["A"].inputfiles = << <<"x">> >>
    /\ files[loc["A"].outfile] = Pdf(<<"y1">>)

====
